---- MODULE Spec2Model ----
(***************************************************************************)
(* State-machine model of the quadratic-voting pallet                      *)
(* (pallets/quadvoting/src/lib.rs): topic submission, vote casting and the *)
(* per-block on_initialize hook that performs the era rollover.            *)
(***************************************************************************)
EXTENDS Integers, Sequences, FiniteSets, TLC

(***************************************************************************)
(* Bounds of the model and configuration of the runtime.                   *)
(***************************************************************************)
\* T::EraDuration: number of blocks in an era (a runtime configuration).
EraDuration == 2
\* T::MaxVotes: the configured maximum of votes per voter (a configuration).
MaxVotes == 1
\* Last block the clock reaches.
MaxBlock == 4
\* Total number of vote records the model lets the logs grow to.
MaxLog == 3
\* Free balance every account starts with.
InitialBalance == 30

\* The deposit of submit_topic (lib.rs:194) and the base fee of vote_topic
\* (lib.rs:237).
SubmissionDeposit == 10
BaseVoteFee == 10

\* Signed accounts, as in the tests (Origin::signed(1), Origin::signed(2)).
Accounts == {1, 2}
\* An origin is a signed account or the unsigned origin (0).
NoOrigin == 0
Origins == Accounts \cup {NoOrigin}

\* Topic contents that callers submit: one-byte vectors.
Contents == {<<0>>, <<1>>}

\* Option<T>: None is the empty sequence, Some(x) is <<x>>.
None == <<>>
Some(x) == <<x>>
UnwrapOr(o, d) == IF o = None THEN d ELSE o[1]

\* T::Hashing::hash: deterministic and injective on the modelled contents,
\* and not monotonic in the content (hashes 3 and 1 for the bytes 0 and 1).
Hash(bytes) == (5 * bytes[1] + 3) % 7
Hashes == {Hash(c) : c \in Contents}

VARIABLES
  block_number,   \* frame_system::Pallet::block_number()
  Topics,         \* StorageMap Hash -> Topic (the keys present)
  TopicsNextEra,  \* StorageValue Option<Vec<Hash>>
  TopicsCurrEra,  \* StorageValue Option<Vec<Hash>>
  Votes,          \* StorageMap BlockNumber -> Vec<(Hash, AccountId)>
  Winners,        \* StorageMap BlockNumber -> Hash
  free,           \* Currency: free balance of every account
  reserved,       \* Currency: reserved balance of every account
  last,           \* the last call: operation, result, event deposited
  submitCalled    \* history: submit_topic has been called at least once

stores == <<Topics, TopicsNextEra, TopicsCurrEra, Votes, Winners>>
vars == <<block_number, Topics, TopicsNextEra, TopicsCurrEra, Votes, Winners,
          free, reserved, last, submitCalled>>

\* StorageMap::get with OptionQuery.
Get(map, key) == IF key \in DOMAIN map THEN Some(map[key]) ELSE None
\* StorageMap::insert / set(key, Some(v)).
Put(map, key, val) == [k \in DOMAIN map \cup {key} |-> IF k = key THEN val ELSE map[k]]
\* StorageMap::append and StorageValue::append: push onto the stored vector,
\* creating it when the key is absent.
MapAppend(map, key, item) == Put(map, key, Append(UnwrapOr(Get(map, key), <<>>), item))
ValueAppend(opt, item) == Some(Append(UnwrapOr(opt, <<>>), item))

Contains(seq, x) == \E i \in 1..Len(seq) : seq[i] = x

\* The outcome of a call: the operation, its result and the event deposited.
Call(op, result, event) == [op |-> op, result |-> result, event |-> event]

Init ==
  /\ block_number = 0
  /\ Topics = <<>>
  /\ TopicsNextEra = None
  /\ TopicsCurrEra = None
  /\ Votes = <<>>
  /\ Winners = <<>>
  /\ free = [a \in Accounts |-> InitialBalance]
  /\ reserved = [a \in Accounts |-> 0]
  /\ last = Call("init", "Ok", "none")
  /\ submitCalled = FALSE

(***************************************************************************)
(* The Currency collaborator: reserve(who, amount) moves amount from the   *)
(* free to the reserved balance and fails when the free balance is short.  *)
(***************************************************************************)
CanReserve(who, amount) == free[who] >= amount
FreeAfterReserve(who, amount) == [free EXCEPT ![who] = @ - amount]
ReservedAfterReserve(who, amount) == [reserved EXCEPT ![who] = @ + amount]

(***************************************************************************)
(* submit_topic                                                            *)
(***************************************************************************)
\* Variant: only the queue of the next era is searched for the hash.
IsDuplicateTopic_queue_only(topics, topic_hash) ==
  Contains(UnwrapOr(TopicsNextEra, <<>>), topic_hash)

\* ensure!(!<Topics<T>>::contains_key(&topic_hash), DuplicateTopic)
IsDuplicateTopic(topics, topic_hash) == topic_hash \in DOMAIN topics

\* Variant: the topic is queued but never inserted into Topics.
TopicsAfterSubmit_no_insert(topics, topic_hash, topic, reserve_ok) == topics

\* Topics after the call: the insert follows the reservation, which returns
\* early on failure.
TopicsAfterSubmit(topics, topic_hash, topic, reserve_ok) ==
  IF reserve_ok THEN Put(topics, topic_hash, topic) ELSE topics

submit_topic(origin, topic_bytes) ==
  LET topic_hash == Hash(topic_bytes)
      deposit == SubmissionDeposit
      topic == [data |-> topic_bytes, provider |-> origin, deposit |-> deposit,
                since |-> block_number]
      hashes == UnwrapOr(TopicsNextEra, <<>>)
  IN
  /\ submitCalled' = TRUE
  /\ UNCHANGED <<block_number, TopicsCurrEra, Votes, Winners>>
  /\ IF origin = NoOrigin
     THEN /\ last' = Call("submit_topic", "BadOrigin", "none")
          /\ UNCHANGED <<Topics, TopicsNextEra, free, reserved>>
     ELSE IF IsDuplicateTopic(Topics, topic_hash)
     THEN /\ last' = Call("submit_topic", "DuplicateTopic", "none")
          /\ UNCHANGED <<Topics, TopicsNextEra, free, reserved>>
     ELSE IF ~CanReserve(origin, deposit)
     THEN /\ last' = Call("submit_topic", "CannotAfford", "none")
          /\ Topics' = TopicsAfterSubmit(Topics, topic_hash, topic, FALSE)
          /\ UNCHANGED <<TopicsNextEra, free, reserved>>
     ELSE /\ free' = FreeAfterReserve(origin, deposit)
          /\ reserved' = ReservedAfterReserve(origin, deposit)
          /\ Topics' = TopicsAfterSubmit(Topics, topic_hash, topic, TRUE)
          /\ IF Contains(hashes, topic_hash)
             THEN /\ last' = Call("submit_topic", "DuplicateTopic", "none")
                  /\ UNCHANGED TopicsNextEra
             ELSE /\ TopicsNextEra' = ValueAppend(TopicsNextEra, topic_hash)
                  /\ last' = Call("submit_topic", "Ok", "NewTopic")

SubmitTopic == \E origin \in Origins, c \in Contents : submit_topic(origin, c)

(***************************************************************************)
(* vote_topic                                                              *)
(***************************************************************************)
\* Bitwise exclusive or of two naturals (the ^ operator of Rust).
RECURSIVE BitXor(_, _)
BitXor(a, b) ==
  IF a = 0 THEN b
  ELSE IF b = 0 THEN a
  ELSE (((a % 2) + (b % 2)) % 2) + 2 * BitXor(a \div 2, b \div 2)

\* let curr_era = ((block_number % era_duration) + era_duration) % era_duration
CurrEraKey(bn) == ((bn % EraDuration) + EraDuration) % EraDuration

\* The fold over the votes read: <<votes_by_topic_who, votes_by_who>>.
RECURSIVE FoldVotes(_, _, _, _)
FoldVotes(votes, topic_hash, who, acc) ==
  IF votes = <<>> THEN acc
  ELSE LET v == Head(votes)
           step == IF v[1] = topic_hash /\ v[2] = who THEN <<acc[1] + 1, acc[2] + 1>>
                   ELSE IF v[2] = who THEN <<acc[1], acc[2] + 1>>
                   ELSE acc
       IN FoldVotes(Tail(votes), topic_hash, who, step)

\* ensure!(votes_by_who <= T::MaxVotes::get(), VoterReachedMaxVotes)
WithinMaxVotes(votes_by_who) == votes_by_who <= MaxVotes

\* let quadratic_voting_fee = ((votes_by_topic_who + 1) ^ 2) * fee
QuadraticVotingFee(votes_by_topic_who) == BitXor(votes_by_topic_who + 1, 2) * BaseVoteFee

\* Variant: the vote replaces the stored vector (insert for append).
VotesAfterVote_insert(votes, bn, topic_hash, who, reserve_ok) ==
  IF reserve_ok THEN Put(votes, bn, <<<<topic_hash, who>>>>) ELSE votes

\* Variant: the vote is appended before the fee is reserved.
VotesAfterVote_append_first(votes, bn, topic_hash, who, reserve_ok) ==
  MapAppend(votes, bn, <<topic_hash, who>>)

\* Votes after the call: the append follows the reservation, whose failure
\* returns early through the ? operator.
VotesAfterVote(votes, bn, topic_hash, who, reserve_ok) ==
  IF reserve_ok THEN MapAppend(votes, bn, <<topic_hash, who>>) ELSE votes

RECURSIVE SumLens(_, _)
SumLens(map, keys) ==
  IF keys = {} THEN 0
  ELSE LET k == CHOOSE x \in keys : TRUE IN Len(map[k]) + SumLens(map, keys \ {k})
\* Number of vote records stored.
TotalVotes == SumLens(Votes, DOMAIN Votes)

\* let votes = <Votes<T>>::get(curr_era).unwrap_or(vec![]), folded into
\* <<votes_by_topic_who, votes_by_who>>.
PriorVotes(who, topic_hash) ==
  LET curr_era == CurrEraKey(block_number)
      votes == UnwrapOr(Get(Votes, curr_era), <<>>)
  IN FoldVotes(votes, topic_hash, who, <<0, 0>>)

vote_topic(origin, topic_hash) ==
  LET folded == PriorVotes(origin, topic_hash)
      votes_by_topic_who == folded[1]
      votes_by_who == folded[2]
      deposit == QuadraticVotingFee(votes_by_topic_who)
  IN
  /\ UNCHANGED <<block_number, Topics, TopicsNextEra, TopicsCurrEra, Winners, submitCalled>>
  /\ IF origin = NoOrigin
     THEN /\ last' = Call("vote_topic", "BadOrigin", "none")
          /\ UNCHANGED <<Votes, free, reserved>>
     ELSE IF ~WithinMaxVotes(votes_by_who)
     THEN /\ last' = Call("vote_topic", "VoterReachedMaxVotes", "none")
          /\ UNCHANGED <<Votes, free, reserved>>
     ELSE IF ~CanReserve(origin, deposit)
     THEN /\ last' = Call("vote_topic", "InsufficientBalance", "none")
          /\ Votes' = VotesAfterVote(Votes, block_number, topic_hash, origin, FALSE)
          /\ UNCHANGED <<free, reserved>>
     ELSE /\ free' = FreeAfterReserve(origin, deposit)
          /\ reserved' = ReservedAfterReserve(origin, deposit)
          /\ Votes' = VotesAfterVote(Votes, block_number, topic_hash, origin, TRUE)
          /\ last' = Call("vote_topic", "Ok", "NewVote")

VoteTopic ==
  /\ TotalVotes < MaxLog
  /\ \E origin \in Origins, h \in Hashes : vote_topic(origin, h)

(***************************************************************************)
(* on_initialize: the era rollover                                         *)
(***************************************************************************)
\* T::OneBlock
OneBlock == 1
\* Width of T::BlockNumber (u64).
BlockNumberBits == 64

RECURSIVE PowMod(_, _, _)
PowMod(b, e, m) == IF e = 0 THEN 1 % m ELSE (b * PowMod(b, e - 1, m)) % m

\* block_number - OneBlock below zero in a build without overflow checks:
\* the difference wraps to 2^64 - OneBlock + block_number.  A negative number
\* n stands for the block number 2^64 + n.
WrappedPrevEra(bn) ==
  LET d == bn - OneBlock
      r == (PowMod(2, BlockNumberBits, EraDuration) + d) % EraDuration
  IN d - r

\* Variant: the step back by OneBlock is left out.
PrevEra_no_step_back(bn) == (bn \div EraDuration) * EraDuration

\* let prev_era = ((block_number - T::OneBlock::get()) / era_duration) * era_duration
PrevEra(bn) ==
  IF bn >= OneBlock THEN ((bn - OneBlock) \div EraDuration) * EraDuration
  ELSE WrappedPrevEra(bn)

\* votes.clone().into_iter().unzip(): the topics of the votes, in order.
TopicsOf(votes) == [i \in 1..Len(votes) |-> votes[i][1]]

\* The BTreeMap counts: topic -> number of occurrences.
Counts(topics) ==
  [h \in {topics[i] : i \in 1..Len(topics)} |->
     Cardinality({i \in 1..Len(topics) : topics[i] = h})]

\* The keys of a BTreeMap in iteration (ascending) order.
RECURSIVE SortedKeys(_)
SortedKeys(S) ==
  IF S = {} THEN <<>>
  ELSE LET m == CHOOSE x \in S : \A y \in S : x <= y
       IN <<m>> \o SortedKeys(S \ {m})

\* Iterator::max_by_key: of several maximal entries the last one is returned.
RECURSIVE MaxByKeyFrom(_, _, _)
MaxByKeyFrom(keys, counts, best) ==
  IF keys = <<>> THEN best
  ELSE LET k == Head(keys)
       IN MaxByKeyFrom(Tail(keys), counts,
                       IF counts[k] >= counts[best] THEN k ELSE best)

\* counts.iter().max_by_key(|entry| entry.1), as an Option of the key.
MaxByKey(counts) ==
  LET keys == SortedKeys(DOMAIN counts)
  IN IF keys = <<>> THEN None ELSE Some(MaxByKeyFrom(Tail(keys), counts, Head(keys)))

\* The topic cast first among those of a sequence of topics with the highest
\* count.
FirstCastMax(topics) ==
  LET counts == Counts(topics)
      i == CHOOSE j \in 1..Len(topics) :
             /\ \A g \in DOMAIN counts : counts[g] <= counts[topics[j]]
             /\ \A l \in 1..(j - 1) : counts[topics[l]] < counts[topics[j]]
  IN topics[i]

\* Variant: ties go to the topic that was voted for first.
Tally_first_cast(votes) ==
  IF votes = <<>> THEN None ELSE Some(FirstCastMax(TopicsOf(votes)))

\* The winner of a vote log: unzip, count, max_by_key.
Tally(votes) == MaxByKey(Counts(TopicsOf(votes)))

\* Variant: the rollover runs one block before the boundary.
IsEraBoundary_early(bn) == (bn + OneBlock) % EraDuration = 0

\* if (block_number % era_duration).is_zero()
IsEraBoundary(bn) == bn % EraDuration = 0

\* Variant: the queue is left as it is.
ClearedTopicsNextEra_kept(nextera_hashes) == nextera_hashes

\* <TopicsNextEra<T>>::set(None)
ClearedTopicsNextEra(nextera_hashes) == None

\* Variant: the queued topics are added to the current ones.
NewTopicsCurrEra_merge(nextera_hashes, currera_hashes) ==
  IF nextera_hashes = None THEN currera_hashes
  ELSE Some(UnwrapOr(currera_hashes, <<>>) \o nextera_hashes[1])

\* Variant: the current topics are kept when nothing is queued.
NewTopicsCurrEra_keep(nextera_hashes, currera_hashes) ==
  IF nextera_hashes = None THEN currera_hashes ELSE nextera_hashes

\* <TopicsCurrEra<T>>::set(nextera_hashes)
NewTopicsCurrEra(nextera_hashes, currera_hashes) == nextera_hashes

\* The storage after on_initialize(bn) has run to its end.
on_initialize(bn) ==
  IF IsEraBoundary(bn)
  THEN LET prev_era == PrevEra(bn)
           votes == UnwrapOr(Get(Votes, prev_era), <<>>)
           winner == Tally(votes)
       IN /\ Winners' = IF winner = None THEN Winners ELSE Put(Winners, prev_era, winner[1])
          /\ TopicsCurrEra' = NewTopicsCurrEra(TopicsNextEra, TopicsCurrEra)
          /\ TopicsNextEra' = ClearedTopicsNextEra(TopicsNextEra)
          /\ last' = Call("on_initialize", "Ok", "NewEra")
  ELSE /\ UNCHANGED <<Winners, TopicsCurrEra, TopicsNextEra>>
       /\ last' = Call("on_initialize", "Ok", "none")

\* The subtraction block_number - OneBlock underflows.
Underflows(bn) == IsEraBoundary(bn) /\ bn < OneBlock

\* A build with overflow checks panics at the underflow, after the NewEra
\* event and before any storage write.
on_initialize_panic(bn) ==
  /\ Underflows(bn)
  /\ UNCHANGED <<Winners, TopicsCurrEra, TopicsNextEra>>
  /\ last' = Call("on_initialize", "Panic", "NewEra")

\* The next block begins: the clock moves and the hook runs for it.
NextBlock ==
  /\ block_number < MaxBlock
  /\ block_number' = block_number + 1
  /\ on_initialize(block_number + 1)
  /\ UNCHANGED <<Topics, Votes, free, reserved, submitCalled>>

\* The hook is called for the current block (as the tests call it directly).
OnInitialize ==
  /\ on_initialize(block_number)
  /\ UNCHANGED <<block_number, Topics, Votes, free, reserved, submitCalled>>

OnInitializePanic ==
  /\ on_initialize_panic(block_number)
  /\ UNCHANGED <<block_number, Topics, Votes, free, reserved, submitCalled>>

Next ==
  \/ SubmitTopic
  \/ VoteTopic
  \/ NextBlock
  \/ OnInitialize
  \/ OnInitializePanic

Spec == Init /\ [][Next]_vars

\* The schedule of a running chain: the hook runs exactly once for every
\* block, beginning with block 1, and is never called otherwise.
NextRuntime ==
  \/ SubmitTopic
  \/ VoteTopic
  \/ NextBlock

SpecRuntime == Init /\ [][NextRuntime]_vars

(***************************************************************************)
(* Notions of the specification used by the properties.                    *)
(***************************************************************************)
\* Era index of a tick: tick / EraDuration.
EraIndex(tick) == tick \div EraDuration
\* The winner table read by era index.
WinnerKey(e) == e * EraDuration
\* The positions <<block, i>> of the vote records cast at the ticks of era e.
EraRecords(e) ==
  UNION {{<<b, i>> : i \in 1..Len(Votes[b])} :
           b \in {x \in DOMAIN Votes : x >= 0 /\ EraIndex(x) = e}}
\* Number of votes for topic h in era e, by voter w in era e, by w for h.
EraVotesFor(e, h) == Cardinality({p \in EraRecords(e) : Votes[p[1]][p[2]][1] = h})
EraVotesBy(e, w) == Cardinality({p \in EraRecords(e) : Votes[p[1]][p[2]][2] = w})
EraVotesByFor(e, w, h) ==
  Cardinality({p \in EraRecords(e) : Votes[p[1]][p[2]] = <<h, w>>})
Eras == 0..EraIndex(MaxBlock)
active == UnwrapOr(TopicsCurrEra, <<>>)
queued == UnwrapOr(TopicsNextEra, <<>>)
Rollover == last'.op = "on_initialize" /\ last'.result = "Ok" /\ last'.event = "NewEra"

\* C1: the winner recorded for an era is a topic with the highest number of
\* votes among all votes cast at any tick of that era.
C1_WinnerCountsWholeEra ==
  \A e \in Eras : WinnerKey(e) \in DOMAIN Winners =>
    \A h \in Hashes : EraVotesFor(e, h) <= EraVotesFor(e, Winners[WinnerKey(e)])

\* C2: no voter has more than MaxVotes vote records within one era.
C2_VotesPerEraWithinMax ==
  \A w \in Accounts, e \in Eras : EraVotesBy(e, w) <= MaxVotes

\* C3: a successful vote of a voter with k earlier votes for the topic in
\* the era reserves (k+1)^2 * BaseVoteFee.
C3_QuadraticFee ==
  [][\A w \in Accounts, h \in Hashes :
       (vote_topic(w, h) /\ last'.result = "Ok") =>
         LET k == EraVotesByFor(EraIndex(block_number), w, h)
         IN reserved'[w] - reserved[w] = (k + 1) * (k + 1) * BaseVoteFee]_vars

\* C4: a vote for a hash that is not in the active list fails with the
\* unknown-topic error and appends nothing.
C4_UnknownTopicRejected ==
  [][\A w \in Accounts, h \in Hashes :
       (vote_topic(w, h) /\ ~Contains(active, h)) =>
         /\ last'.result \in {"UnknownTopic", "InvalidTopicHash"}
         /\ Votes' = Votes]_vars

\* C5: at a rollover the active list becomes the queued list as it was, and
\* the queue becomes empty.
C5_RolloverPromotesQueue ==
  [][Rollover => (TopicsCurrEra' = TopicsNextEra /\ TopicsNextEra' = None)]_vars

\* C5 witness: a rollover has promoted two topics in their submission order
\* (the content <<0>> first: hash 3 before hash 1).
C5_Witness ==
  /\ last.op = "on_initialize" /\ last.event = "NewEra" /\ last.result = "Ok"
  /\ TopicsCurrEra = Some(<<Hash(<<0>>), Hash(<<1>>)>>)
  /\ TopicsNextEra = None
  /\ block_number = 2 * EraDuration

\* C6: a vote by a voter who already has MaxVotes votes in the current era
\* fails with VoterReachedMaxVotes and changes nothing.
C6_CapRejects ==
  [][\A w \in Accounts, h \in Hashes :
       (vote_topic(w, h) /\ EraVotesBy(EraIndex(block_number), w) >= MaxVotes) =>
         /\ last'.result = "VoterReachedMaxVotes"
         /\ UNCHANGED <<stores, free, reserved>>]_vars

\* C7: submitting content whose hash is already in Topics fails with
\* DuplicateTopic, reserves nothing and leaves Topics and both lists alone.
C7_DuplicateRejected ==
  [][\A w \in Accounts, c \in Contents :
       (submit_topic(w, c) /\ Hash(c) \in DOMAIN Topics) =>
         /\ last'.result = "DuplicateTopic"
         /\ UNCHANGED <<Topics, TopicsNextEra, TopicsCurrEra, free, reserved>>]_vars

\* C7 witness: a duplicate was rejected after its topic had left the active
\* list (the stored topics date from era 0 and none is queued or active).
C7_Witness ==
  /\ last.op = "submit_topic" /\ last.result = "DuplicateTopic"
  /\ DOMAIN Topics # {}
  /\ \A h \in DOMAIN Topics : Topics[h].since < EraDuration
  /\ block_number >= 2 * EraDuration
  /\ queued = <<>> /\ active = <<>>

\* C8: as long as submit_topic was never called, the active list is empty
\* and the winner table has no entry.
C8_NoSubmitNoWinner ==
  ~submitCalled => (active = <<>> /\ DOMAIN Winners = {})

\* C9: an entry of the winner table never changes once set, and an entry
\* appears only through the rollover that ends its era.
C9_WinnerWrittenOnce ==
  [][/\ \A e \in DOMAIN Winners : e \in DOMAIN Winners' /\ Winners'[e] = Winners[e]
     /\ \A e \in (DOMAIN Winners') \ (DOMAIN Winners) :
          Rollover /\ block_number' = e + EraDuration]_vars

\* C9 witness: the hook ran again at a boundary tick, after votes were cast
\* at that tick, with the winner of the era just ended already recorded.
C9_Witness ==
  /\ last.op = "on_initialize" /\ last.event = "NewEra" /\ last.result = "Ok"
  /\ block_number >= EraDuration
  /\ block_number \in DOMAIN Votes
  /\ PrevEra(block_number) \in DOMAIN Winners

\* C10: a call that fails at the reservation of funds leaves every store
\* and every balance as it was.
C10_ReserveFailureAtomic ==
  [][(last'.result \in {"CannotAfford", "InsufficientBalance"}) =>
       UNCHANGED <<stores, free, reserved, block_number>>]_vars

\* C10 witness: a vote failed at the reservation while the voter already had
\* a vote recorded and a topic stored.
C10_Witness ==
  /\ last.op = "vote_topic" /\ last.result = "InsufficientBalance"
  /\ Votes # <<>>
  /\ Topics # <<>>

NoRepeats(seq) == \A i, j \in 1..Len(seq) : seq[i] = seq[j] => i = j
Elems(seq) == {seq[i] : i \in 1..Len(seq)}

\* C11: the queued and the active list have no hash in common, and neither
\* holds a hash twice.
C11_QueuesDisjoint ==
  /\ Elems(queued) \cap Elems(active) = {}
  /\ NoRepeats(queued)
  /\ NoRepeats(active)

\* C11 witness: one topic is active while the other is queued.
C11_Witness ==
  /\ Len(active) = 1 /\ Len(queued) = 1
  /\ DOMAIN Topics = Hashes

\* C12: the counts a vote at the current tick works with are the voter's
\* votes (for the topic, and in total) cast at the ticks of the current era.
C12_CountsFromCurrentEra ==
  \A w \in Accounts, h \in Hashes :
    PriorVotes(w, h) = <<EraVotesByFor(EraIndex(block_number), w, h),
                         EraVotesBy(EraIndex(block_number), w)>>

RolledOver(e) == block_number >= (e + 1) * EraDuration
\* Number of records for topic h in a vote log.
CountFor(votes, h) == Cardinality({i \in 1..Len(votes) : votes[i][1] = h})

\* C14: once era e has been rolled over, the winner table has an entry for
\* e exactly if votes were cast in era e, and the winner recorded is a topic
\* that received a vote in era e.
C14_WinnerIffVotes ==
  \A e \in Eras : RolledOver(e) =>
    /\ (WinnerKey(e) \in DOMAIN Winners) <=> (EraRecords(e) # {})
    /\ WinnerKey(e) \in DOMAIN Winners => EraVotesFor(e, Winners[WinnerKey(e)]) >= 1

C16_NonBoundaryNoop ==
  [][(last'.op = "on_initialize" /\ block_number' % EraDuration # 0) =>
       (UNCHANGED stores /\ last'.event # "NewEra")]_vars

\* C16 witness: the hook has run for a tick inside an era with a topic
\* queued, a topic active and a vote on record.
C16_Witness ==
  /\ last.op = "on_initialize" /\ last.result = "Ok"
  /\ block_number % EraDuration # 0
  /\ queued # <<>> /\ active # <<>> /\ DOMAIN Votes # {}

IsPrefix(a, b) == Len(a) <= Len(b) /\ \A i \in 1..Len(a) : b[i] = a[i]
\* The log under key b, empty when the key is absent.
LogAt(votes, b) == UnwrapOr(Get(votes, b), <<>>)

\* C17: a successful vote adds exactly the record (topic, voter), as the
\* last record cast in the current era, and changes no other store; no step
\* removes or alters a record, and records are only added behind (at a tick
\* not before) all records there are.
C17_VoteAppendsOneRecord ==
  [][/\ \A w \in Accounts, h \in Hashes :
          (vote_topic(w, h) /\ last'.result = "Ok") =>
            /\ \E b \in DOMAIN Votes' :
                 /\ EraIndex(b) = EraIndex(block_number)
                 /\ Votes'[b] = Append(LogAt(Votes, b), <<h, w>>)
                 /\ \A c \in DOMAIN Votes' : c # b =>
                      (c \in DOMAIN Votes /\ Votes'[c] = Votes[c] /\ c < b)
            /\ UNCHANGED <<Topics, TopicsNextEra, TopicsCurrEra, Winners>>
     /\ \A b \in DOMAIN Votes :
          b \in DOMAIN Votes' /\ IsPrefix(Votes[b], Votes'[b])]_vars

\* C17 witness: after three successful votes in era 0, cast at two ticks,
\* the logs of the era hold three records.
C17_Witness ==
  /\ last.op = "vote_topic" /\ last.result = "Ok"
  /\ 0 \in DOMAIN Votes /\ 1 \in DOMAIN Votes /\ EraIndex(1) = 0
  /\ Len(Votes[0]) + Len(Votes[1]) = 3
  /\ Len(Votes[1]) >= 1

\* C18: the hook never fails: it does not panic, and at a boundary tick the
\* previous era it computes is a block number that did not wrap around.
C18_AdvanceNeverFails ==
  last.op = "on_initialize" =>
    /\ last.result = "Ok"
    /\ IsEraBoundary(block_number) => PrevEra(block_number) >= 0

\* C19: a stored topic is never removed or altered, and a successful
\* submission stores the content, the proposer and the deposit under the
\* hash of the content.
C19_TopicsImmutable ==
  [][/\ \A h \in DOMAIN Topics : h \in DOMAIN Topics' /\ Topics'[h] = Topics[h]
     /\ \A w \in Accounts, c \in Contents :
          (submit_topic(w, c) /\ last'.result = "Ok") =>
            /\ Hash(c) \in DOMAIN Topics'
            /\ Topics'[Hash(c)].data = c
            /\ Topics'[Hash(c)].provider = w
            /\ Topics'[Hash(c)].deposit = SubmissionDeposit]_vars

\* C19 witness: a topic stored in era 0 by account 1 is intact in era 2,
\* after votes, rollovers and the submission of another topic.
C19_Witness ==
  /\ EraIndex(block_number) = 2
  /\ DOMAIN Votes # {}
  /\ \E c \in Contents, d \in Contents :
       /\ Hash(c) \in DOMAIN Topics /\ Hash(d) \in DOMAIN Topics
       /\ Topics[Hash(c)] = [data |-> c, provider |-> 1,
                             deposit |-> SubmissionDeposit, since |-> 0]
       /\ Topics[Hash(d)].since > 0

\* C20: every queued or active hash is a key of Topics, and a call of
\* submit_topic that returns an error has changed neither Topics nor a
\* balance nor the queue.
C20_QueuedAreStored ==
  /\ []((Elems(queued) \cup Elems(active)) \subseteq DOMAIN Topics)
  /\ [][(last'.op = "submit_topic" /\ last'.result # "Ok") =>
          UNCHANGED <<Topics, TopicsNextEra, free, reserved>>]_vars

\* C20 witness: a submission was rejected as a duplicate while its topic
\* was still queued.
C20_Witness ==
  /\ last.op = "submit_topic" /\ last.result = "DuplicateTopic"
  /\ Len(queued) = 2 /\ active = <<>>
  /\ DOMAIN Topics = Hashes
====
